---- MODULE Spec2Model ----
(***************************************************************************)
(* unreal-doc: the parse-and-resolve pipeline of src/main.rs.              *)
(*                                                                         *)
(* main() walks the input headers, every header is turned by the grammar   *)
(* engine into a list of nodes which parse_file folds into one Document,   *)
(* then resolve_injects, resolve_self_names_in_docs and sort_items_by_name *)
(* run over the Document and a backend bakes it.                           *)
(*                                                                         *)
(* The grammar engine (pest) is external: the nodes it yields are drawn    *)
(* from small sets, one node per step, in the order parse_file and         *)
(* parse_struct_class_body consume them.                                   *)
(***************************************************************************)
EXTENDS Naturals, Sequences, FiniteSets, TLC

(***************************************************************************)
(* Bounds of the model.                                                    *)
(***************************************************************************)
\* parse-tree nodes (file scope and body scope) consumed over the whole run
MaxNodes == 3

(***************************************************************************)
(* Input alphabets.                                                        *)
(***************************************************************************)
Names == {"A", "B"}
Tags == {"t1", "t2"}

\* Option<T>
None == <<>>
Some(x) == <<x>>
IsSome(o) == o /= None
Unwrap(o) == o[1]

\* A text is a sequence of pieces of the string: "$" is the dollar sign,
\* "Self" these four letters, every other piece a word holding neither.
\* A name is one piece.
SelfPlaceholder == <<"$", "Self", "$">>

DocTexts == {SelfPlaceholder \o <<"doc">>}
DocChoices == {None} \cup {Some(t) : t \in DocTexts}

Visibilities == {"Private", "Protected", "Public"}
\* what the grammar's visibility node may hold; "other" is any other text
VisibilityTokens == {"private", "protected", "public", "other"}
Modes == {"Struct", "Class"}

\* tag lists of an inject node (several inject nodes add up)
InjectTagSets == {{"t1"}, {"t2"}}
\* tag lists of a proxy directive
ProxyTagSets == {{"t1"}, {"t1", "t2"}}

(***************************************************************************)
(* config.rs: Settings                                                     *)
(***************************************************************************)
SettingsSet == [show_all : BOOLEAN, document_protected : BOOLEAN, document_private : BOOLEAN]

DefaultSettings == [show_all |-> FALSE, document_protected |-> FALSE, document_private |-> FALSE]

(***************************************************************************)
(* document.rs: records and their Default values                           *)
(***************************************************************************)
NewEnum(name, doc) == [name |-> name, doc_comments |-> doc]

NewProperty(name, vis, doc) == [name |-> name, visibility |-> vis, doc_comments |-> doc]

NewArgument(name, value_type, default_value, doc) ==
  [name |-> name, value_type |-> value_type, default_value |-> default_value,
   doc_comments |-> doc]

\* Function::default() with the fields the builders of the model set
NewFunction(name, vis, doc) ==
  [name |-> name, return_type |-> None, visibility |-> vis, template |-> None,
   arguments |-> <<>>, is_static |-> FALSE, is_virtual |-> FALSE,
   is_const_this |-> FALSE, is_override |-> FALSE, doc_comments |-> doc]

DefaultStructClass ==
  [mode |-> "Struct", name |-> "", properties |-> <<>>, methods |-> <<>>,
   doc_comments |-> None, injects |-> {}]

NewProxy(tags, item) == [tags |-> tags, item |-> item]

DefaultDocument ==
  [enums |-> <<>>, classes |-> <<>>, structs |-> <<>>, functions |-> <<>>,
   book |-> <<>>, snippets |-> <<>>,
   proxy_functions |-> <<>>, proxy_properties |-> <<>>]

\* the Element a classification returns
NoElement == [kind |-> "None"]
MkElement(kind, item) == [kind |-> kind, item |-> item]

(***************************************************************************)
(* document.rs: export predicates                                          *)
(***************************************************************************)
\* variant: show_all lets every visibility through
VisibilityCanExport_ShowAll(v, s) ==
  \/ s.show_all
  \/ CASE v = "Public" -> TRUE
        [] v = "Protected" -> s.document_protected
        [] v = "Private" -> s.document_private

\* variant: document_private takes the place of document_protected
VisibilityCanExport_PrivateInstead(v, s) ==
  CASE v = "Public" -> TRUE
    [] v = "Protected" -> s.document_protected /\ ~s.document_private
    [] v = "Private" -> s.document_private

VisibilityCanExport(v, s) ==
  CASE v = "Public" -> TRUE
    [] v = "Protected" -> s.document_protected
    [] v = "Private" -> s.document_private

EnumCanExport(e, s) == s.show_all \/ IsSome(e.doc_comments)

\* variant: show_all lets every property through
PropertyCanExport_ShowAll(p, s) ==
  s.show_all \/ (IsSome(p.doc_comments) /\ VisibilityCanExport(p.visibility, s))

\* variant: `||` in place of `&&`
PropertyCanExport_Either(p, s) ==
  IsSome(p.doc_comments) \/ VisibilityCanExport(p.visibility, s)

PropertyCanExport(p, s) == IsSome(p.doc_comments) /\ VisibilityCanExport(p.visibility, s)

\* variant: the doc comment is not looked at
FunctionCanExport_IgnoresDocs(f, s) == VisibilityCanExport(f.visibility, s)

FunctionCanExport(f, s) == IsSome(f.doc_comments) /\ VisibilityCanExport(f.visibility, s)

\* variant: the members are not looked at
StructClassCanExport_OwnDocsOnly(sc, s) == s.show_all \/ IsSome(sc.doc_comments)

StructClassCanExport(sc, s) ==
  \/ s.show_all
  \/ IsSome(sc.doc_comments)
  \/ \E i \in DOMAIN sc.properties : PropertyCanExport(sc.properties[i], s)
  \/ \E i \in DOMAIN sc.methods : FunctionCanExport(sc.methods[i], s)

\* variant: the two arms exchanged
DefaultVisibility_Swapped(mode) ==
  CASE mode = "Struct" -> "Private"
    [] mode = "Class" -> "Public"

DefaultVisibility(mode) ==
  CASE mode = "Struct" -> "Public"
    [] mode = "Class" -> "Private"

\* variant: any other token counts as `public`
ParseVisibility_OtherIsPublic(token) ==
  CASE token = "private" -> Some("Private")
    [] token = "protected" -> Some("Protected")
    [] OTHER -> Some("Public")

\* unreal_cpp_header.rs: parse_visibility
ParseVisibility(token) ==
  CASE token = "private" -> Some("Private")
    [] token = "protected" -> Some("Protected")
    [] token = "public" -> Some("Public")
    [] OTHER -> None

(***************************************************************************)
(* Sequence helpers                                                        *)
(***************************************************************************)
MapSeq(Op(_), s) == [i \in DOMAIN s |-> Op(s[i])]

AnyNamed(list, name) == \E i \in DOMAIN list : list[i].name = name

(***************************************************************************)
(* document.rs: inject resolution                                          *)
(***************************************************************************)
\* std::mem::take(&mut place): the value is moved out, `default` stays behind
\* variant: the value is cloned and stays in its place
MemTakeRest_Clone(value, default) == value

MemTakeRest(value, default) == default

ProxyItem(p) == p.item

\* variant: only the first proxy of either list is looked at
StructClassResolveInjects_FirstProxy(sc, functions, properties) ==
  LET tags == sc.injects
      Matches(p) == \E tag \in tags : tag \in p.tags
      First(list) == IF list = <<>> THEN <<>> ELSE <<Head(list)>>
  IN  [sc EXCEPT
         !.injects = MemTakeRest(tags, {}),
         !.methods = @ \o MapSeq(ProxyItem, SelectSeq(First(functions), Matches)),
         !.properties = @ \o MapSeq(ProxyItem, SelectSeq(First(properties), Matches))]

\* StructClass::resolve_injects
StructClassResolveInjects(sc, functions, properties) ==
  LET tags == sc.injects
      Matches(p) == \E tag \in tags : tag \in p.tags
  IN  [sc EXCEPT
         !.injects = MemTakeRest(tags, {}),
         !.methods = @ \o MapSeq(ProxyItem, SelectSeq(functions, Matches)),
         !.properties = @ \o MapSeq(ProxyItem, SelectSeq(properties, Matches))]

\* variant: the proxy lists are borrowed, not taken
DocumentResolveInjects_Borrows(doc) ==
  LET Resolve(item) ==
        StructClassResolveInjects(item, doc.proxy_functions, doc.proxy_properties)
  IN  [doc EXCEPT !.structs = MapSeq(Resolve, @)]

\* variant: the top-level functions are taken with the proxy lists
DocumentResolveInjects_TakesFunctions(doc) ==
  LET proxy_functions == doc.proxy_functions
      proxy_properties == doc.proxy_properties
      Resolve(item) == StructClassResolveInjects(item, proxy_functions, proxy_properties)
  IN  [doc EXCEPT
         !.proxy_functions = MemTakeRest(proxy_functions, <<>>),
         !.proxy_properties = MemTakeRest(proxy_properties, <<>>),
         !.functions = MemTakeRest(doc.functions, <<>>),
         !.structs = MapSeq(Resolve, @)]

\* Document::resolve_injects
DocumentResolveInjects(doc) ==
  LET proxy_functions == doc.proxy_functions
      proxy_properties == doc.proxy_properties
      Resolve(item) == StructClassResolveInjects(item, proxy_functions, proxy_properties)
  IN  [doc EXCEPT
         !.proxy_functions = MemTakeRest(proxy_functions, <<>>),
         !.proxy_properties = MemTakeRest(proxy_properties, <<>>),
         !.structs = MapSeq(Resolve, @)]

(***************************************************************************)
(* document.rs: self-name substitution                                     *)
(***************************************************************************)
MatchesAt(content, pattern, i) ==
  /\ i + Len(pattern) - 1 <= Len(content)
  /\ \A k \in 1..Len(pattern) : content[i + k - 1] = pattern[k]

\* str::replace: the matches are found left to right, each search starting
\* behind the match before it; what is put in is not searched again
RECURSIVE StrReplace(_, _, _)
StrReplace(content, pattern, to) ==
  IF content = <<>>
    THEN <<>>
    ELSE IF MatchesAt(content, pattern, 1)
      THEN to \o StrReplace(SubSeq(content, Len(pattern) + 1, Len(content)), pattern, to)
      ELSE <<Head(content)>> \o StrReplace(Tail(content), pattern, to)

\* variant: replacen(.., 1), only the first match is replaced
ReplaceSelfNames_Once(content, owner) ==
  LET found == {i \in DOMAIN content : MatchesAt(content, SelfPlaceholder, i)}
      first == CHOOSE i \in found : \A j \in found : i <= j
  IN  IF found = {}
        THEN content
        ELSE SubSeq(content, 1, first - 1) \o <<owner>>
               \o SubSeq(content, first + Len(SelfPlaceholder), Len(content))

\* replace_self_names: content.replace("$Self$", owner)
ReplaceSelfNames(content, owner) == StrReplace(content, SelfPlaceholder, <<owner>>)

ReplaceInDoc(doc_comments, owner) ==
  IF IsSome(doc_comments)
    THEN Some(ReplaceSelfNames(Unwrap(doc_comments), owner))
    ELSE doc_comments

\* Enum::resolve_self_names_in_docs
EnumResolveSelfNames(e) == [e EXCEPT !.doc_comments = ReplaceInDoc(@, e.name)]

\* Property::resolve_self_names_in_docs
PropertyResolveSelfNames(p, owner) == [p EXCEPT !.doc_comments = ReplaceInDoc(@, owner)]

\* variant: the argument is left as it is
ArgumentResolveSelfNames_Skips(a, owner) == a

\* Argument::resolve_self_names_in_docs; owner is an Option
ArgumentResolveSelfNames(a, owner) ==
  IF IsSome(owner)
    THEN [a EXCEPT !.doc_comments = ReplaceInDoc(@, Unwrap(owner))]
    ELSE a

\* Function::resolve_self_names_in_docs; owner is an Option
FunctionResolveSelfNames(f, owner) ==
  LET OnArgument(a) == ArgumentResolveSelfNames(a, owner)
  IN  [f EXCEPT
         !.doc_comments = IF IsSome(owner) THEN ReplaceInDoc(@, Unwrap(owner)) ELSE @,
         !.arguments = MapSeq(OnArgument, @)]

\* StructClass::resolve_self_names_in_docs
StructClassResolveSelfNames(sc) ==
  LET OnProperty(p) == PropertyResolveSelfNames(p, sc.name)
      OnMethod(f) == FunctionResolveSelfNames(f, Some(sc.name))
  IN  [sc EXCEPT
         !.doc_comments = ReplaceInDoc(@, sc.name),
         !.properties = MapSeq(OnProperty, @),
         !.methods = MapSeq(OnMethod, @)]

\* a pass that resolves every struct with the name of the first struct
DocumentResolveSelfNames_FirstOwner(doc) ==
  LET OnFunction(f) == FunctionResolveSelfNames(f, None)
      OnStruct(sc) ==
        [StructClassResolveSelfNames([sc EXCEPT !.name = doc.structs[1].name])
           EXCEPT !.name = sc.name]
  IN  [doc EXCEPT
         !.enums = MapSeq(EnumResolveSelfNames, @),
         !.classes = MapSeq(StructClassResolveSelfNames, @),
         !.structs = MapSeq(OnStruct, @),
         !.functions = MapSeq(OnFunction, @)]

\* Document::resolve_self_names_in_docs
DocumentResolveSelfNames(doc) ==
  LET OnFunction(f) == FunctionResolveSelfNames(f, None)
  IN  [doc EXCEPT
         !.enums = MapSeq(EnumResolveSelfNames, @),
         !.classes = MapSeq(StructClassResolveSelfNames, @),
         !.structs = MapSeq(StructClassResolveSelfNames, @),
         !.functions = MapSeq(OnFunction, @)]

(***************************************************************************)
(* document.rs: sort by name (slice::sort_by is a stable sort)             *)
(***************************************************************************)
\* String::cmp on the names of the model, "" being the Default name
NameRank(n) ==
  CASE n = "" -> 0
    [] n = "A" -> 1
    [] n = "B" -> 2
    [] n = "Self" -> 3

NameLeq(a, b) == NameRank(a) <= NameRank(b)

\* variant: x goes in front of the entries that bear its name
InsertByName_BeforeEquals(sorted, x) ==
  LET keep == {i \in DOMAIN sorted : NameRank(sorted[i].name) < NameRank(x.name)}
      k == Cardinality(keep)
  IN  SubSeq(sorted, 1, k) \o <<x>> \o SubSeq(sorted, k + 1, Len(sorted))

\* variant: an entry whose name the list already holds is merged into it
InsertByName_Merging(sorted, x) ==
  LET keep == {i \in DOMAIN sorted : NameLeq(sorted[i].name, x.name)}
      k == Cardinality(keep)
  IN  IF \E i \in DOMAIN sorted : sorted[i].name = x.name
        THEN sorted
        ELSE SubSeq(sorted, 1, k) \o <<x>> \o SubSeq(sorted, k + 1, Len(sorted))

\* x goes behind every entry whose name is not greater than its own
InsertByName(sorted, x) ==
  LET keep == {i \in DOMAIN sorted : NameLeq(sorted[i].name, x.name)}
      k == Cardinality(keep)
  IN  SubSeq(sorted, 1, k) \o <<x>> \o SubSeq(sorted, k + 1, Len(sorted))

RECURSIVE SortByName(_)
SortByName(s) ==
  IF s = <<>>
    THEN <<>>
    ELSE InsertByName(SortByName(SubSeq(s, 1, Len(s) - 1)), s[Len(s)])

\* variant: the methods are left in the order they have
StructClassSortItems_PropertiesOnly(sc) == [sc EXCEPT !.properties = SortByName(@)]

\* StructClass::sort_items_by_name
StructClassSortItems(sc) ==
  [sc EXCEPT !.properties = SortByName(@), !.methods = SortByName(@)]

\* Document::sort_items_by_name
DocumentSortItems(doc) ==
  [doc EXCEPT
     !.enums = SortByName(@),
     !.classes = SortByName(MapSeq(StructClassSortItems, @)),
     !.structs = SortByName(MapSeq(StructClassSortItems, @)),
     !.functions = SortByName(@)]

(***************************************************************************)
(* backends/json.rs: what serde writes; #[serde(skip)] fields are left out *)
(***************************************************************************)
StructClassJson(sc) ==
  [mode |-> sc.mode, name |-> sc.name, properties |-> sc.properties,
   methods |-> sc.methods, doc_comments |-> sc.doc_comments]

BakeJson(doc) ==
  [enums |-> doc.enums,
   classes |-> MapSeq(StructClassJson, doc.classes),
   structs |-> MapSeq(StructClassJson, doc.structs),
   functions |-> doc.functions,
   book |-> doc.book,
   snippets |-> doc.snippets]

(***************************************************************************)
(* State                                                                   *)
(***************************************************************************)
VARIABLES
  settings,     \* config.settings, fixed for the run
  document,     \* main's Document
  pc,           \* main's position: the call it is about to make or is inside
  scope,        \* the parser's position: "none" (between files), "file"
                \* (parse_file's loop), "body" (parse_struct_class_body's loop)
  error,        \* what the grammar engine returned last: "Ok" or "Err"
  nodes,        \* parse-tree nodes consumed so far
  element,      \* the Element the last parse_element call returned
  body,         \* the nodes the last parse_struct_class_body loop has consumed
  result,       \* parse_element_struct_class's StructClass under construction
  visibility,   \* parse_struct_class_body's current visibility
  diagnostics,  \* the "Overwriting existing ..." lines printed so far
  ran,          \* the resolution passes main has called, in call order
  snippet,      \* the snippet node parse_file is about to meet, None if none
  proxy,        \* the proxy directive parse_file is about to meet, None if none
  output        \* what the backend has written, None before

vars ==
  <<settings, document, pc, scope, error, nodes, element, body, result,
    visibility, diagnostics, ran, snippet, proxy, output>>

parser_vars == <<element, body, result, visibility>>

\* a node of a struct/class body as the body loop sees it
VisibilityNode(token) ==
  [rule |-> "visibility", token |-> token, tags |-> {}, element |-> NoElement]
InjectNode(tags) ==
  [rule |-> "inject", token |-> "", tags |-> tags, element |-> NoElement]
ElementNode(e) ==
  [rule |-> "element", token |-> "", tags |-> {}, element |-> e]

Init ==
  /\ settings \in SettingsSet
  /\ document = DefaultDocument
  /\ pc = "document_path"
  /\ scope = "none"
  /\ error = "Ok"
  /\ nodes = 0
  /\ element = NoElement
  /\ body = <<>>
  /\ result = DefaultStructClass
  /\ visibility = "Public"
  /\ diagnostics = <<>>
  /\ ran = <<>>
  /\ snippet = None
  /\ proxy = None
  /\ output = None

(***************************************************************************)
(* main.rs: document_path / document_header                                *)
(***************************************************************************)
\* variant: a header the grammar rejects is skipped and the walk goes on
DocumentHeader_SkipsBadFile ==
  /\ pc = "document_path"
  /\ scope = "none"
  /\ \E ok \in BOOLEAN :
       IF ok
         THEN scope' = "file" /\ error' = "Ok"
         ELSE scope' = scope /\ error' = "Err"
  /\ UNCHANGED <<settings, snippet, proxy, document, pc, nodes, parser_vars, diagnostics, ran, output>>

\* document_header on the next header: the grammar engine parses the whole
\* text before parse_file sees a node; a grammar error panics.
DocumentHeader ==
  /\ pc = "document_path"
  /\ scope = "none"
  /\ \E ok \in BOOLEAN :
       IF ok
         THEN scope' = "file" /\ pc' = pc /\ error' = "Ok"
         ELSE scope' = scope /\ pc' = "panicked" /\ error' = "Err"
  /\ UNCHANGED <<settings, snippet, proxy, document, nodes, parser_vars, diagnostics, ran, output>>

\* parse_file has consumed the last node of the header
EndFile ==
  /\ pc = "document_path"
  /\ scope = "file"
  /\ scope' = "none"
  /\ UNCHANGED <<settings, snippet, proxy, document, pc, error, nodes, parser_vars, diagnostics, ran,
                 output>>

(***************************************************************************)
(* unreal_cpp_header.rs: parse_file, one node per step                     *)
(***************************************************************************)
AtFileScope == pc = "document_path" /\ scope = "file" /\ nodes < MaxNodes

\* the push of an exportable top-level item into document.<list>, with the
\* diagnostic printed when the list already holds the name
Admit(list, kind, item, exportable) ==
  IF exportable
    THEN /\ document' = [document EXCEPT ![list] = Append(@, item)]
         /\ diagnostics' =
              IF AnyNamed(document[list], item.name)
                THEN Append(diagnostics, <<kind, item.name>>)
                ELSE diagnostics
    ELSE UNCHANGED <<document, diagnostics>>

\* Rule::element classified as Element::Enum
ParseFileEnum ==
  /\ AtFileScope
  /\ \E name \in Names, doc \in DocChoices :
       LET item == NewEnum(name, doc)
       IN  /\ element' = MkElement("Enum", item)
           /\ Admit("enums", "enum", item, EnumCanExport(item, settings))
  /\ nodes' = nodes + 1
  /\ UNCHANGED <<settings, snippet, proxy, pc, scope, error, body, result, visibility, ran, output>>

\* Rule::element classified as Element::Function, visibility Public
ParseFileFunction ==
  /\ AtFileScope
  /\ \E name \in Names, doc \in DocChoices :
       LET item == NewFunction(name, "Public", doc)
       IN  /\ element' = MkElement("Function", item)
           /\ Admit("functions", "function", item, FunctionCanExport(item, settings))
  /\ nodes' = nodes + 1
  /\ UNCHANGED <<settings, snippet, proxy, pc, scope, error, body, result, visibility, ran, output>>

\* Rule::element classified as Element::Property or Element::None: the `_ => {}` arm
ParseFileOther ==
  /\ AtFileScope
  /\ \/ element' = NoElement
     \/ element' = MkElement("Property", NewProperty("A", "Public", None))
  /\ nodes' = nodes + 1
  /\ UNCHANGED <<settings, snippet, proxy, document, pc, scope, error, body, result, visibility,
                 diagnostics, ran, output>>

(***************************************************************************)
(* unreal_cpp_header.rs: parse_element_struct_class and its body           *)
(***************************************************************************)
\* Rule::element_struct / Rule::element_class: the signature is read and the
\* body loop starts with the mode's default visibility
BeginStructClass ==
  /\ AtFileScope
  /\ \E mode \in Modes, name \in Names, doc \in DocChoices :
       /\ result' = [DefaultStructClass EXCEPT
                       !.mode = mode, !.doc_comments = doc, !.name = name]
       /\ visibility' = DefaultVisibility(mode)
  /\ scope' = "body"
  /\ body' = <<>>
  /\ nodes' = nodes + 1
  /\ UNCHANGED <<settings, snippet, proxy, document, pc, error, element, diagnostics, ran, output>>

AtBodyScope == pc = "document_path" /\ scope = "body" /\ nodes < MaxNodes

\* Rule::visibility
BodyVisibility ==
  /\ AtBodyScope
  /\ \E token \in VisibilityTokens :
       LET v == ParseVisibility(token)
       IN  /\ visibility' = IF IsSome(v) THEN Unwrap(v) ELSE visibility
           /\ body' = Append(body, VisibilityNode(token))
  /\ nodes' = nodes + 1
  /\ UNCHANGED <<settings, snippet, proxy, document, pc, scope, error, element, result,
                 diagnostics, ran, output>>

\* Rule::inject
BodyInject ==
  /\ AtBodyScope
  /\ \E tags \in InjectTagSets :
       /\ result' = [result EXCEPT !.injects = @ \cup tags]
       /\ body' = Append(body, InjectNode(tags))
  /\ nodes' = nodes + 1
  /\ UNCHANGED <<settings, snippet, proxy, document, pc, scope, error, element, visibility,
                 diagnostics, ran, output>>

\* Rule::element classified as Element::Property with the current visibility
BodyProperty ==
  /\ AtBodyScope
  /\ \E name \in Names, doc \in DocChoices :
       LET item == NewProperty(name, visibility, doc)
       IN  /\ element' = MkElement("Property", item)
           /\ body' = Append(body, ElementNode(MkElement("Property", item)))
           /\ result' = IF PropertyCanExport(item, settings)
                          THEN [result EXCEPT !.properties = Append(@, item)]
                          ELSE result
  /\ nodes' = nodes + 1
  /\ UNCHANGED <<settings, snippet, proxy, document, pc, scope, error, visibility,
                 diagnostics, ran, output>>

\* Rule::element classified as Element::Function with the current visibility
BodyFunction ==
  /\ AtBodyScope
  /\ \E name \in Names, doc \in DocChoices :
       LET item == NewFunction(name, visibility, doc)
       IN  /\ element' = MkElement("Function", item)
           /\ body' = Append(body, ElementNode(MkElement("Function", item)))
           /\ result' = IF FunctionCanExport(item, settings)
                          THEN [result EXCEPT !.methods = Append(@, item)]
                          ELSE result
  /\ nodes' = nodes + 1
  /\ UNCHANGED <<settings, snippet, proxy, document, pc, scope, error, visibility,
                 diagnostics, ran, output>>

\* the body loop ends: parse_element returns Element::StructClass(result)
\* and parse_file admits it into structs or classes by its mode
EndStructClass ==
  /\ pc = "document_path"
  /\ scope = "body"
  /\ element' = MkElement("StructClass", result)
  /\ IF result.mode = "Struct"
       THEN Admit("structs", "struct", result, StructClassCanExport(result, settings))
       ELSE Admit("classes", "class", result, StructClassCanExport(result, settings))
  /\ scope' = "file"
  /\ result' = DefaultStructClass
  /\ visibility' = "Public"
  /\ UNCHANGED <<settings, snippet, proxy, pc, error, nodes, body, ran, output>>

(***************************************************************************)
(* unreal_cpp_header.rs: parse_proxy                                       *)
(***************************************************************************)
\* what parse_unreal_cpp_element makes of the proxy's inline content;
\* "invalid" is content the grammar rejects
ProxyContentKinds == {"Function", "Property", "Enum", "StructClass", "None", "invalid"}

\* variant: the content is classified as a class body classifies its
\* first member
ProxyContentItem_Private(kind, name, doc_comments) ==
  IF kind = "Function"
    THEN NewFunction(name, "Private", doc_comments)
    ELSE NewProperty(name, "Private", doc_comments)

\* the item parse_unreal_cpp_element returns for a function or a property:
\* parse_element is called with Visibility::Public; parse_proxy then sets
\* the directive's doc comments on it
ProxyContentItem(kind, name, doc_comments) ==
  IF kind = "Function"
    THEN NewFunction(name, "Public", doc_comments)
    ELSE NewProperty(name, "Public", doc_comments)

\* variant: a directive without doc-comment block is registered as well
ProxyEffect_DocsNotNeeded(doc_comments, tags, kind, name) ==
  CASE kind = "invalid" ->
         /\ pc' = "panicked"
         /\ error' = "Err"
         /\ UNCHANGED document
    [] kind = "Function" ->
         /\ pc' = pc
         /\ error' = "Ok"
         /\ document' = [document EXCEPT !.proxy_functions =
                           Append(@, NewProxy(tags, ProxyContentItem(kind, name, doc_comments)))]
    [] kind = "Property" ->
         /\ pc' = pc
         /\ error' = "Ok"
         /\ document' = [document EXCEPT !.proxy_properties =
                           Append(@, NewProxy(tags, ProxyContentItem(kind, name, doc_comments)))]
    [] OTHER ->
         /\ pc' = pc
         /\ error' = "Ok"
         /\ UNCHANGED document

\* parse_proxy on a directive with these doc comments, tags and content
ProxyEffect(doc_comments, tags, kind, name) ==
  CASE kind = "invalid" ->
         /\ pc' = "panicked"
         /\ error' = "Err"
         /\ UNCHANGED document
    [] kind = "Function" ->
         /\ pc' = pc
         /\ error' = "Ok"
         /\ document' =
              IF IsSome(doc_comments)
                THEN [document EXCEPT !.proxy_functions =
                        Append(@, NewProxy(tags, ProxyContentItem(kind, name, doc_comments)))]
                ELSE document
    [] kind = "Property" ->
         /\ pc' = pc
         /\ error' = "Ok"
         /\ document' =
              IF IsSome(doc_comments)
                THEN [document EXCEPT !.proxy_properties =
                        Append(@, NewProxy(tags, ProxyContentItem(kind, name, doc_comments)))]
                ELSE document
    [] OTHER ->
         /\ pc' = pc
         /\ error' = "Ok"
         /\ UNCHANGED document

\* Rule::proxy in parse_file, the directive drawn at the step
ParseProxy ==
  /\ AtFileScope
  /\ \E doc_comments \in DocChoices, tags \in ProxyTagSets,
        kind \in ProxyContentKinds, name \in Names :
       ProxyEffect(doc_comments, tags, kind, name)
  /\ nodes' = nodes + 1
  /\ UNCHANGED <<settings, snippet, proxy, scope, parser_vars, diagnostics, ran, output>>

(***************************************************************************)
(* main.rs: the resolution passes and the backend                          *)
(***************************************************************************)
\* the loop over input_dirs is over; document.resolve_injects()
ResolveInjects ==
  /\ pc = "document_path"
  /\ scope = "none"
  /\ document' = DocumentResolveInjects(document)
  /\ ran' = Append(ran, "resolve_injects")
  /\ pc' = "resolve_self_names_in_docs"
  /\ UNCHANGED <<settings, snippet, proxy, scope, error, nodes, parser_vars, diagnostics, output>>

\* variant: main goes from self-name substitution straight to the backend
ResolveSelfNames_ThenBake ==
  /\ pc = "resolve_self_names_in_docs"
  /\ document' = DocumentResolveSelfNames(document)
  /\ ran' = Append(ran, "resolve_self_names_in_docs")
  /\ pc' = "bake"
  /\ UNCHANGED <<settings, snippet, proxy, scope, error, nodes, parser_vars, diagnostics, output>>

\* document.resolve_self_names_in_docs()
ResolveSelfNames ==
  /\ pc = "resolve_self_names_in_docs"
  /\ document' = DocumentResolveSelfNames(document)
  /\ ran' = Append(ran, "resolve_self_names_in_docs")
  /\ pc' = "sort_items_by_name"
  /\ UNCHANGED <<settings, snippet, proxy, scope, error, nodes, parser_vars, diagnostics, output>>

\* document.sort_items_by_name()
SortItems ==
  /\ pc = "sort_items_by_name"
  /\ document' = DocumentSortItems(document)
  /\ ran' = Append(ran, "sort_items_by_name")
  /\ pc' = "bake"
  /\ UNCHANGED <<settings, snippet, proxy, scope, error, nodes, parser_vars, diagnostics, output>>

\* match config.backend { ... }: the backend reads the resolved Document
Bake ==
  /\ pc = "bake"
  /\ output' = Some(BakeJson(document))
  /\ pc' = "done"
  /\ UNCHANGED <<settings, snippet, proxy, document, scope, error, nodes, parser_vars, diagnostics,
                 ran>>

Next ==
  \/ DocumentHeader
  \/ EndFile
  \/ ParseFileEnum
  \/ ParseFileFunction
  \/ ParseFileOther
  \/ BeginStructClass
  \/ BodyVisibility
  \/ BodyInject
  \/ BodyProperty
  \/ BodyFunction
  \/ EndStructClass
  \/ ParseProxy
  \/ ResolveInjects
  \/ ResolveSelfNames
  \/ SortItems
  \/ Bake

Spec == Init /\ [][Next]_vars

(***************************************************************************)
(* main.rs, lines 64-75: the passes over Documents the parse bound does    *)
(* not let Spec build. The state is the one main is in when its loop over  *)
(* input_dirs is over; the Document is drawn instead of parsed.            *)
(***************************************************************************)
\* pieces per doc comment text
MaxTextLen == 7
\* entries per drawn list
MaxList == 2

TextPieces == {"$", "Self", "x"}
Texts == UNION {[1..n -> TextPieces] : n \in 0..MaxTextLen}
OwnerNames == {"A", "Self"}

NameSeqs == UNION {[1..n -> Names] : n \in 0..MaxList}

\* the tags the drawn hosts and proxies carry, by name
HostTags(name) == IF name = "A" THEN {"t1"} ELSE {"t2"}
ProxiedTags(name) == IF name = "A" THEN {"t1"} ELSE {"t1", "t2"}

LoopOver(doc) ==
  /\ settings = DefaultSettings
  /\ document = doc
  /\ pc = "document_path"
  /\ scope = "none"
  /\ error = "Ok"
  /\ nodes = MaxNodes
  /\ element = NoElement
  /\ body = <<>>
  /\ result = DefaultStructClass
  /\ visibility = "Public"
  /\ diagnostics = <<>>
  /\ ran = <<>>
  /\ snippet = None
  /\ proxy = None
  /\ output = None

\* one enum, struct, class and function, every doc comment the same text
TextDocument(owner, text) ==
  LET documented == NewArgument(Some("a"), "int", None, Some(text))
      bare == NewArgument(None, "int", None, None)
      function == [NewFunction("A", "Public", Some(text)) EXCEPT
                     !.arguments = <<documented, bare>>]
      type(mode) ==
        [DefaultStructClass EXCEPT
           !.mode = mode, !.name = owner, !.doc_comments = Some(text),
           !.properties = <<NewProperty("A", "Public", Some(text))>>,
           !.methods = <<function>>]
  IN  [DefaultDocument EXCEPT
         !.enums = <<NewEnum(owner, Some(text))>>,
         !.classes = <<type("Class")>>,
         !.structs = <<type("Struct")>>,
         !.functions = <<function>>]

InitTexts == \E owner \in OwnerNames, text \in Texts : LoopOver(TextDocument(owner, text))

\* lists in every order of names; hosts carry their own members and an
\* inject tag, the proxies' items are told apart by their doc comment
OrderDocument(top, hosts, members, proxied) ==
  LET own == Some(<<"own">>)
      moved == Some(<<"proxy">>)
      type(mode, name) ==
        [DefaultStructClass EXCEPT
           !.mode = mode, !.name = name, !.doc_comments = own,
           !.injects = HostTags(name),
           !.properties = [i \in DOMAIN members |-> NewProperty(members[i], "Public", own)],
           !.methods = [i \in DOMAIN members |-> NewFunction(members[i], "Public", own)]]
  IN  [DefaultDocument EXCEPT
         !.enums = [i \in DOMAIN top |-> NewEnum(top[i], own)],
         !.functions = [i \in DOMAIN top |-> NewFunction(top[i], "Public", own)],
         !.classes = [i \in DOMAIN hosts |-> type("Class", hosts[i])],
         !.structs = [i \in DOMAIN hosts |-> type("Struct", hosts[i])],
         !.proxy_functions =
           [i \in DOMAIN proxied |->
              NewProxy(ProxiedTags(proxied[i]), NewFunction(proxied[i], "Public", moved))],
         !.proxy_properties =
           [i \in DOMAIN proxied |->
              NewProxy(ProxiedTags(proxied[i]), NewProperty(proxied[i], "Public", moved))]]

\* the top-level lists carry the names of the members, in their order
InitOrders ==
  \E hosts \in NameSeqs, members \in NameSeqs, proxied \in NameSeqs :
    LoopOver(OrderDocument(members, hosts, members, proxied))

\* struct and class hosts without members of their own, one proxy function
\* and one proxy property whose tags every host's inject tag meets, a book
\* page and a snippet; every text the same
SharedDocument(hosts, proxied, text) ==
  LET type(mode, name) ==
        [DefaultStructClass EXCEPT
           !.mode = mode, !.name = name, !.doc_comments = Some(text),
           !.injects = HostTags(name)]
  IN  [DefaultDocument EXCEPT
         !.classes = [i \in DOMAIN hosts |-> type("Class", hosts[i])],
         !.structs = [i \in DOMAIN hosts |-> type("Struct", hosts[i])],
         !.book = [k \in {"index.md"} |-> text],
         !.snippets = [k \in {"s"} |-> text],
         !.proxy_functions = <<NewProxy(Tags, NewFunction(proxied, "Public", Some(text)))>>,
         !.proxy_properties = <<NewProxy(Tags, NewProperty(proxied, "Public", Some(text)))>>]

InitShared ==
  \E hosts \in NameSeqs, proxied \in Names, text \in DocTexts :
    LoopOver(SharedDocument(hosts, proxied, text))

InitResolve == InitTexts \/ InitOrders \/ InitShared

NextResolve ==
  \/ ResolveInjects
  \/ ResolveSelfNames
  \/ SortItems
  \/ Bake

SpecResolve == InitResolve /\ [][NextResolve]_vars

(***************************************************************************)
(* unreal_cpp_header.rs: parse_snippet at file scope                       *)
(***************************************************************************)
\* lines per snippet body
MaxLines == 2
\* whitespace characters a line starts with
MaxIndent == 2

\* Characters of a snippet line. "NBSP" is U+00A0, a whitespace character
\* that takes two bytes in UTF-8; the others take one.
WhitespaceChars == {" ", "NBSP"}
Utf8Len(c) == IF c = "NBSP" THEN 2 ELSE 1
IsWhitespace(c) == c \in WhitespaceChars

Indents == UNION {[1..n -> WhitespaceChars] : n \in 0..MaxIndent}
SnippetLines == {indent \o rest : indent \in Indents, rest \in {<<>>, <<"x">>}}
SnippetTexts == UNION {[1..n -> SnippetLines] : n \in 1..MaxLines}
SnippetIds == {"s"}

\* line.chars().take_while(|c| c.is_whitespace()).count()
LeadingWhitespace(line) ==
  Cardinality({k \in DOMAIN line : \A i \in 1..k : IsWhitespace(line[i])})

\* .min_by(|a, b| a.cmp(b)).unwrap_or_default()
Level(lines) ==
  IF lines = <<>>
    THEN 0
    ELSE CHOOSE n \in {LeadingWhitespace(lines[i]) : i \in DOMAIN lines} :
           \A i \in DOMAIN lines : n <= LeadingWhitespace(lines[i])

RECURSIVE ByteLen(_)
ByteLen(chars) ==
  IF chars = <<>> THEN 0 ELSE Utf8Len(Head(chars)) + ByteLen(Tail(chars))

\* the characters that end at byte offset n, if n is a character boundary
BoundaryAt(line, n) == {k \in 0..Len(line) : ByteLen(SubSeq(line, 1, k)) = n}

\* line[n..]: a slice by byte offset, which panics off a character boundary
SliceFrom(line, n) ==
  IF BoundaryAt(line, n) = {}
    THEN [panicked |-> TRUE, text |-> <<>>]
    ELSE LET k == CHOOSE k \in BoundaryAt(line, n) : TRUE
         IN  [panicked |-> FALSE, text |-> SubSeq(line, k + 1, Len(line))]

\* parse_snippet_inner; the text is kept as its lines, the way join("\n")
\* lays them out
ParseSnippetInner(lines) ==
  LET level == Level(lines)
      sliced == [i \in DOMAIN lines |-> SliceFrom(lines[i], level)]
  IN  IF \E i \in DOMAIN lines : sliced[i].panicked
        THEN [panicked |-> TRUE, text |-> <<>>]
        ELSE [panicked |-> FALSE, text |-> [i \in DOMAIN lines |-> sliced[i].text]]

\* HashMap::insert
Insert(map, key, value) ==
  [k \in DOMAIN map \cup {key} |-> IF k = key THEN value ELSE map[k]]

\* Rule::snippet in parse_file
ParseSnippet ==
  /\ AtFileScope
  /\ IsSome(snippet)
  /\ LET node == Unwrap(snippet)
         content == ParseSnippetInner(node.inner)
     IN  IF content.panicked
           THEN /\ pc' = "panicked"
                /\ UNCHANGED <<document, diagnostics>>
           ELSE /\ pc' = pc
                /\ document' = [document EXCEPT !.snippets = Insert(@, node.id, content.text)]
                /\ diagnostics' =
                     IF node.id \in DOMAIN document.snippets
                       THEN Append(diagnostics, <<"snippet", node.id>>)
                       ELSE diagnostics
  /\ snippet' = None
  /\ nodes' = nodes + 1
  /\ UNCHANGED <<settings, proxy, scope, error, parser_vars, ran, output>>

\* a header has been opened and its next node is a snippet directive
InitSnippet ==
  /\ settings = DefaultSettings
  /\ document = DefaultDocument
  /\ pc = "document_path"
  /\ scope = "file"
  /\ error = "Ok"
  /\ nodes = 0
  /\ element = NoElement
  /\ body = <<>>
  /\ result = DefaultStructClass
  /\ visibility = "Public"
  /\ diagnostics = <<>>
  /\ ran = <<>>
  /\ \E id \in SnippetIds, inner \in SnippetTexts : snippet = Some([id |-> id, inner |-> inner])
  /\ proxy = None
  /\ output = None

\* the Document and the diagnostics after parse_snippet has registered
\* `text` under `id`
Registered(doc, id, text) == [doc EXCEPT !.snippets = Insert(@, id, text)]

Overwriting(doc, lines, id) ==
  IF id \in DOMAIN doc.snippets THEN Append(lines, <<"snippet", id>>) ELSE lines

\* Rule::element at file scope classified as Element::Function, the body of
\* the function holding the pending snippet: parse_function_body calls
\* parse_snippet before parse_file decides about the function
ParseFileFunctionSnippet ==
  /\ AtFileScope
  /\ IsSome(snippet)
  /\ \E name \in Names, doc \in DocChoices :
       LET node == Unwrap(snippet)
           content == ParseSnippetInner(node.inner)
           item == NewFunction(name, "Public", doc)
           registered == Registered(document, node.id, content.text)
           printed == Overwriting(document, diagnostics, node.id)
       IN  IF content.panicked
             THEN /\ pc' = "panicked"
                  /\ UNCHANGED <<document, diagnostics, element>>
             ELSE /\ pc' = pc
                  /\ element' = MkElement("Function", item)
                  /\ IF FunctionCanExport(item, settings)
                       THEN /\ document' = [registered EXCEPT !.functions = Append(@, item)]
                            /\ diagnostics' =
                                 IF AnyNamed(document.functions, item.name)
                                   THEN Append(printed, <<"function", item.name>>)
                                   ELSE printed
                       ELSE /\ document' = registered
                            /\ diagnostics' = printed
  /\ snippet' = None
  /\ nodes' = nodes + 1
  /\ UNCHANGED <<settings, proxy, scope, error, body, result, visibility, ran, output>>

\* Rule::element in a body classified as Element::Function, the body of the
\* method holding the pending snippet
BodyFunctionSnippet ==
  /\ AtBodyScope
  /\ IsSome(snippet)
  /\ \E name \in Names, doc \in DocChoices :
       LET node == Unwrap(snippet)
           content == ParseSnippetInner(node.inner)
           item == NewFunction(name, visibility, doc)
       IN  IF content.panicked
             THEN /\ pc' = "panicked"
                  /\ UNCHANGED <<document, diagnostics, element, body, result>>
             ELSE /\ pc' = pc
                  /\ document' = Registered(document, node.id, content.text)
                  /\ diagnostics' = Overwriting(document, diagnostics, node.id)
                  /\ element' = MkElement("Function", item)
                  /\ body' = Append(body, ElementNode(MkElement("Function", item)))
                  /\ result' = IF FunctionCanExport(item, settings)
                                 THEN [result EXCEPT !.methods = Append(@, item)]
                                 ELSE result
  /\ snippet' = None
  /\ nodes' = nodes + 1
  /\ UNCHANGED <<settings, proxy, scope, error, visibility, ran, output>>

NextSnippet ==
  \/ ParseSnippet
  \/ ParseFileFunctionSnippet
  \/ BeginStructClass
  \/ BodyFunctionSnippet
  \/ EndStructClass
  \/ EndFile

SpecSnippet == InitSnippet /\ [][NextSnippet]_vars

(***************************************************************************)
(* unreal_cpp_header.rs: parse_proxy on a directive that is known          *)
(***************************************************************************)
\* Rule::proxy in parse_file, the directive being the one that is pending
ParsePendingProxy ==
  /\ AtFileScope
  /\ IsSome(proxy)
  /\ LET node == Unwrap(proxy)
     IN  ProxyEffect(node.doc_comments, node.tags, node.kind, node.name)
  /\ proxy' = None
  /\ nodes' = nodes + 1
  /\ UNCHANGED <<settings, snippet, scope, parser_vars, diagnostics, ran, output>>

ProxyNodes ==
  [doc_comments : DocChoices, tags : ProxyTagSets, kind : ProxyContentKinds, name : Names]

\* a header has been opened and its next node is a proxy directive
InitProxy ==
  /\ settings \in SettingsSet
  /\ document = DefaultDocument
  /\ pc = "document_path"
  /\ scope = "file"
  /\ error = "Ok"
  /\ nodes = 0
  /\ element = NoElement
  /\ body = <<>>
  /\ result = DefaultStructClass
  /\ visibility = "Public"
  /\ diagnostics = <<>>
  /\ ran = <<>>
  /\ snippet = None
  /\ proxy \in {Some(node) : node \in ProxyNodes}
  /\ output = None

NextProxy ==
  \/ ParsePendingProxy
  \/ EndFile

SpecProxy == InitProxy /\ [][NextProxy]_vars

(***************************************************************************)
(* A header read after the proxies have been registered                    *)
(***************************************************************************)
\* the Document after parse_proxy has registered a function and a property
RegisteredProxies(tags, name, doc_comments) ==
  [DefaultDocument EXCEPT
     !.proxy_functions = <<NewProxy(tags, ProxyContentItem("Function", name, doc_comments))>>,
     !.proxy_properties = <<NewProxy(tags, ProxyContentItem("Property", name, doc_comments))>>]

\* a header has been opened, the proxies come from the headers before it
InitInject ==
  /\ settings \in SettingsSet
  /\ \E tags \in ProxyTagSets, name \in Names, text \in DocTexts :
       document = RegisteredProxies(tags, name, Some(text))
  /\ pc = "document_path"
  /\ scope = "file"
  /\ error = "Ok"
  /\ nodes = 0
  /\ element = NoElement
  /\ body = <<>>
  /\ result = DefaultStructClass
  /\ visibility = "Public"
  /\ diagnostics = <<>>
  /\ ran = <<>>
  /\ snippet = None
  /\ proxy = None
  /\ output = None

NextInject ==
  \/ BeginStructClass
  \/ BodyVisibility
  \/ BodyInject
  \/ EndStructClass
  \/ EndFile
  \/ ResolveInjects

SpecInject == InitInject /\ [][NextInject]_vars

(***************************************************************************)
(* document.rs: signatures, and the mdbook backend that prints them        *)
(***************************************************************************)
\* arguments per function
MaxArgs == 2

\* Visibility::signature
VisibilitySignature(v) ==
  CASE v = "Public" -> "public"
    [] v = "Protected" -> "protected"
    [] v = "Private" -> "private"

\* A signature is kept as the pieces pushed onto the String, in push order.
\* Argument::signature
ArgumentSignature(a) ==
  <<a.value_type>>
    \o (IF IsSome(a.name) THEN <<" ", Unwrap(a.name)>> ELSE <<>>)
    \o (IF IsSome(a.default_value) THEN <<" = ", Unwrap(a.default_value)>> ELSE <<>>)

RECURSIVE ArgumentList(_, _)
\* the loop over self.arguments.iter().enumerate(), from index i on
ArgumentList(arguments, i) ==
  IF i > Len(arguments)
    THEN <<>>
    ELSE <<"\n    ">> \o ArgumentSignature(arguments[i])
           \o (IF i < Len(arguments) THEN <<",">> ELSE <<"\n">>)
           \o ArgumentList(arguments, i + 1)

\* variant: `virtual ` is pushed before `static `
FunctionSignature_VirtualFirst(f) ==
  <<VisibilitySignature(f.visibility), ":\n">>
    \o (IF IsSome(f.template) THEN <<Unwrap(f.template), "\n">> ELSE <<>>)
    \o (IF f.is_virtual THEN <<"virtual ">> ELSE <<>>)
    \o (IF f.is_static THEN <<"static ">> ELSE <<>>)
    \o (IF IsSome(f.return_type) THEN <<Unwrap(f.return_type), " ">> ELSE <<>>)
    \o <<f.name, "(">>
    \o ArgumentList(f.arguments, 1)
    \o <<")">>
    \o (IF f.is_const_this THEN <<" const">> ELSE <<>>)
    \o (IF f.is_override THEN <<" override">> ELSE <<>>)
    \o <<";">>

\* Function::signature
FunctionSignature(f) ==
  <<VisibilitySignature(f.visibility), ":\n">>
    \o (IF IsSome(f.template) THEN <<Unwrap(f.template), "\n">> ELSE <<>>)
    \o (IF f.is_static THEN <<"static ">> ELSE <<>>)
    \o (IF f.is_virtual THEN <<"virtual ">> ELSE <<>>)
    \o (IF IsSome(f.return_type) THEN <<Unwrap(f.return_type), " ">> ELSE <<>>)
    \o <<f.name, "(">>
    \o ArgumentList(f.arguments, 1)
    \o <<")">>
    \o (IF f.is_const_this THEN <<" const">> ELSE <<>>)
    \o (IF f.is_override THEN <<" override">> ELSE <<>>)
    \o <<";">>

\* bake_mdbook, the page of every top-level function: bake_function writes
\* the cpp block of item.signature() at indent level 0
BakeMdBook ==
  /\ pc = "bake"
  /\ output' = Some([signatures |-> MapSeq(FunctionSignature, document.functions)])
  /\ pc' = "done"
  /\ UNCHANGED <<settings, snippet, proxy, document, scope, error, nodes, parser_vars,
                 diagnostics, ran>>

ArgumentChoices ==
  {NewArgument(Some("a"), "int", None, None),
   NewArgument(None, "bool", Some("true"), None)}
ArgumentLists == UNION {[1..n -> ArgumentChoices] : n \in 0..MaxArgs}

FullFunctions ==
  {[NewFunction("A", v, Some(<<"doc">>)) EXCEPT
      !.template = t, !.is_static = s, !.is_virtual = w, !.return_type = r,
      !.arguments = a, !.is_const_this = c, !.is_override = o] :
     v \in Visibilities, t \in {None, Some("template <typename T>")},
     s \in BOOLEAN, w \in BOOLEAN, r \in {None, Some("void")},
     a \in ArgumentLists, c \in BOOLEAN, o \in BOOLEAN}

\* main is about to call the backend on a Document of one function
InitSignature ==
  /\ settings = DefaultSettings
  /\ \E f \in FullFunctions : document = [DefaultDocument EXCEPT !.functions = <<f>>]
  /\ pc = "bake"
  /\ scope = "none"
  /\ error = "Ok"
  /\ nodes = MaxNodes
  /\ element = NoElement
  /\ body = <<>>
  /\ result = DefaultStructClass
  /\ visibility = "Public"
  /\ diagnostics = <<>>
  /\ ran = <<"resolve_injects", "resolve_self_names_in_docs", "sort_items_by_name">>
  /\ snippet = None
  /\ proxy = None
  /\ output = None

NextBake ==
  \/ Bake
  \/ BakeMdBook

SpecSignature == InitSignature /\ [][NextBake]_vars

(***************************************************************************)
(* Properties                                                              *)
(***************************************************************************)
PostInject == pc \in {"resolve_self_names_in_docs", "sort_items_by_name", "bake", "done"}

ResolveInjectsStep == pc = "document_path" /\ pc' = "resolve_self_names_in_docs"

Pipeline == <<"resolve_injects", "resolve_self_names_in_docs", "sort_items_by_name">>

Intersects(a, b) == a \cap b /= {}

CountItem(seq, x) == Cardinality({k \in DOMAIN seq : seq[k] = x})

Appended(old, new) == SubSeq(new, Len(old) + 1, Len(new))

\* the members a host gained are the items of the proxies its tags match,
\* each as often as a matching proxy carries it, and nothing else
GainedExactlyMatching(old, new, proxies, tags) ==
  /\ Len(new) >= Len(old)
  /\ Len(Appended(old, new)) =
       Cardinality({k \in DOMAIN proxies : Intersects(tags, proxies[k].tags)})
  /\ \A j \in DOMAIN proxies :
       CountItem(Appended(old, new), proxies[j].item) =
         Cardinality({k \in DOMAIN proxies :
                        /\ proxies[k].item = proxies[j].item
                        /\ Intersects(tags, proxies[k].tags)})

HostInjected(list) ==
  /\ Len(document'[list]) = Len(document[list])
  /\ \A i \in DOMAIN document[list] :
       LET old == document[list][i]
           new == document'[list][i]
       IN  /\ GainedExactlyMatching(old.methods, new.methods,
                                    document.proxy_functions, old.injects)
           /\ GainedExactlyMatching(old.properties, new.properties,
                                    document.proxy_properties, old.injects)

\* C1: inject resolution appends a proxy's item to a StructClass of the
\* structs list or of the classes list if and only if the type's injection
\* tags intersect the proxy's tags, and it raises no error.
C1_InjectIffTagsIntersect ==
  [][ResolveInjectsStep =>
       /\ HostInjected("structs")
       /\ HostInjected("classes")
       /\ error' = "Ok"]_vars

\* what C1 says, of the structs list alone
C1_StructsInjectIffTagsIntersect ==
  [][ResolveInjectsStep => HostInjected("structs") /\ error' = "Ok"]_vars

ListOfKind(kind) ==
  CASE kind = "enum" -> "enums"
    [] kind = "struct" -> "structs"
    [] kind = "class" -> "classes"
    [] kind = "function" -> "functions"

\* C2: when a declaration is admitted whose kind and name the Document
\* already holds, one overwrite diagnostic is reported and the list of that
\* kind holds exactly one entry of that name, the newly admitted one.
C2_OverwriteLeavesOneEntry ==
  [][Len(diagnostics') > Len(diagnostics) =>
       LET d == diagnostics'[Len(diagnostics')]
           list == document'[ListOfKind(d[1])]
           same == {i \in DOMAIN list : list[i].name = d[2]}
       IN  /\ Len(diagnostics') = Len(diagnostics) + 1
           /\ Cardinality(same) = 1
           /\ \A i \in same : list[i] = element'.item]_vars

\* the last body loop consumed exactly two methods, one documented and one
\* not, and no visibility section
TwoMethodsOneDocumented ==
  /\ Len(body) = 2
  /\ \A k \in DOMAIN body :
       body[k].rule = "element" /\ body[k].element.kind = "Function"
  /\ Cardinality({k \in DOMAIN body : IsSome(body[k].element.item.doc_comments)}) = 1

DocumentedNames ==
  LET k == CHOOSE k \in DOMAIN body : IsSome(body[k].element.item.doc_comments)
  IN  <<body[k].element.item.name>>

MethodNames(sc) == [i \in DOMAIN sc.methods |-> sc.methods[i].name]

\* parse_file has just taken the type whose body is `body`
TypeJustParsed(mode) ==
  /\ pc = "document_path"
  /\ scope = "file"
  /\ element.kind = "StructClass"
  /\ element.item.mode = mode

LastIs(list, item) == list /= <<>> /\ list[Len(list)] = item

\* C3: under the default settings an undocumented class without visibility
\* sections that holds one documented and one undocumented method is
\* admitted into the classes list with exactly the documented method.
C3_ClassExportsDocumentedMethod ==
  ( /\ settings = DefaultSettings
    /\ TypeJustParsed("Class")
    /\ element.item.doc_comments = None
    /\ TwoMethodsOneDocumented )
  => /\ LastIs(document.classes, element.item)
     /\ MethodNames(element.item) = DocumentedNames

\* C3 (amended): what holds of the class is what the claim says of a struct
\* of the same shape; the class itself has no method left and is not admitted.
C3_StructExportsDocumentedMethod ==
  ( /\ settings = DefaultSettings
    /\ pc = "document_path"
    /\ scope = "file"
    /\ element.kind = "StructClass"
    /\ element.item.doc_comments = None
    /\ TwoMethodsOneDocumented )
  => IF element.item.mode = "Struct"
       THEN /\ LastIs(document.structs, element.item)
            /\ MethodNames(element.item) = DocumentedNames
       ELSE /\ element.item.methods = <<>>
            /\ \A i \in DOMAIN document.classes : document.classes[i] /= element.item

C3_Witness ==
  /\ settings = DefaultSettings
  /\ TypeJustParsed("Struct")
  /\ element.item.doc_comments = None
  /\ TwoMethodsOneDocumented
  /\ LastIs(document.structs, element.item)
  /\ Len(element.item.methods) = 1

\* can_export of the declaration an Element holds
ElementCanExport(e, s) ==
  CASE e.kind = "Enum" -> EnumCanExport(e.item, s)
    [] e.kind = "StructClass" -> StructClassCanExport(e.item, s)
    [] e.kind = "Property" -> PropertyCanExport(e.item, s)
    [] e.kind = "Function" -> FunctionCanExport(e.item, s)

Undocumented == element.kind /= "None" /\ element.item.doc_comments = None

HoldsMember(e) ==
  e.kind = "StructClass" /\ (e.item.properties /= <<>> \/ e.item.methods /= <<>>)

\* C4: with show-all off, a declaration of any kind without doc comments is
\* not exportable.
C4_UndocumentedNeverExported ==
  (~settings.show_all /\ Undocumented) => ~ElementCanExport(element, settings)

\* C4 (amended): with show-all off, an undocumented declaration is
\* exportable exactly when it is a StructClass that holds a member.
C4_UndocumentedExportedOnlyByMember ==
  (~settings.show_all /\ Undocumented)
    => (ElementCanExport(element, settings) <=> HoldsMember(element))

C4_Witness ==
  /\ ~settings.show_all
  /\ settings.document_protected
  /\ element.kind = "Property"
  /\ element.item.visibility = "Protected"
  /\ element.item.doc_comments = None

\* C5: once inject resolution has run, both proxy lists are empty, in that
\* state and in every later one.
C5_ProxyListsStayEmpty ==
  PostInject => document.proxy_functions = <<>> /\ document.proxy_properties = <<>>

\* the only struct of the Document had nothing but inject nodes in its body
OnlyStructTookInjects ==
  /\ Len(document.structs) = 1
  /\ element.kind = "StructClass"
  /\ element.item.name = document.structs[1].name
  /\ body /= <<>>
  /\ \A k \in DOMAIN body : body[k].rule = "inject"

C5_Witness ==
  /\ pc = "done"
  /\ OnlyStructTookInjects
  /\ Len(document.structs[1].properties) = 1
  /\ document.proxy_properties = <<>>

\* C6: a second inject resolution changes nothing of a Document on which
\* inject resolution has run.
C6_SecondInjectIsNoOp ==
  PostInject => DocumentResolveInjects(document) = document

C6_Witness ==
  /\ pc = "resolve_self_names_in_docs"
  /\ OnlyStructTookInjects
  /\ Len(document.structs[1].methods) = 1

\* C7: after inject resolution every StructClass of the structs list and of
\* the classes list has an empty injection-tag set.
C7_AllTagSetsEmpty ==
  PostInject =>
    /\ \A i \in DOMAIN document.structs : document.structs[i].injects = {}
    /\ \A i \in DOMAIN document.classes : document.classes[i].injects = {}

IsPrefix(s, t) == Len(s) <= Len(t) /\ SubSeq(t, 1, Len(s)) = s

\* C8: a run that reaches rendering has called inject resolution, self-name
\* substitution and sort once each in that order, after the last file and
\* before the backend writes.
C8_PipelineOnceInOrder ==
  /\ []( /\ IsPrefix(ran, Pipeline)
         /\ (pc \in {"bake", "done"} \/ output /= None) => ran = Pipeline
         /\ ran /= <<>> => scope = "none" /\ pc /= "document_path" )
  /\ [][ran /= <<>> => UNCHANGED <<nodes, scope>>]_vars

C8_Witness ==
  /\ pc = "done"
  /\ output /= None
  /\ nodes > 0
  /\ ran = Pipeline

\* C9: once the grammar engine has rejected a header the run is over: no
\* file is parsed after it, no pass runs, nothing is written.
C9_GrammarErrorAborts ==
  /\ [](error = "Err" => pc = "panicked" /\ ran = <<>> /\ output = None)
  /\ [][error = "Err" => UNCHANGED vars]_vars

C9_Witness ==
  /\ error = "Err"
  /\ pc = "panicked"
  /\ scope = "none"
  /\ document.enums /= <<>>

ElementNodes == {k \in DOMAIN body : body[k].rule = "element"}

\* the body loop has just classified its first member and has met no
\* visibility section so far
FirstMemberWithoutSection ==
  /\ scope = "body"
  /\ body /= <<>>
  /\ ElementNodes = {Len(body)}
  /\ body[Len(body)].element.kind \in {"Property", "Function"}
  /\ \A k \in DOMAIN body : body[k].rule /= "visibility"

\* C10: the first member of a body without a visibility section before it
\* is classified Public in a struct and Private in a class.
C10_FirstMemberDefaultVisibility ==
  FirstMemberWithoutSection =>
    LET member == body[Len(body)].element.item
    IN  /\ result.mode = "Struct" => member.visibility = "Public"
        /\ result.mode = "Class" => member.visibility = "Private"

C10_Witness ==
  /\ FirstMemberWithoutSection
  /\ result.mode = "Class"
  /\ body[1].rule = "inject"
  /\ body[Len(body)].element.item.visibility = "Private"

(***************************************************************************)
(* Self-name substitution                                                  *)
(***************************************************************************)
ResolveSelfNamesStep ==
  pc = "resolve_self_names_in_docs" /\ pc' = "sort_items_by_name"

\* where the placeholder stands in a text
Occurrences(text) == {i \in DOMAIN text : MatchesAt(text, SelfPlaceholder, i)}

Apart(text) ==
  \A i, j \in Occurrences(text) : i < j => i + Len(SelfPlaceholder) <= j

\* new is old with the owner's name in the place of every placeholder and
\* every other piece where it was, moved up by what the placeholders lost
Substituted(old, new, owner) ==
  LET lost == Len(SelfPlaceholder) - 1
      before(i) == Cardinality({o \in Occurrences(old) : o < i})
      inside(i) == \E o \in Occurrences(old) : o < i /\ i < o + Len(SelfPlaceholder)
  IN  /\ Len(new) = Len(old) - lost * Cardinality(Occurrences(old))
      /\ \A i \in DOMAIN old :
           \/ inside(i)
           \/ new[i - lost * before(i)] = (IF i \in Occurrences(old) THEN owner ELSE old[i])

SubstitutedDoc(old, new, owner) ==
  /\ IsSome(old) = IsSome(new)
  /\ IsSome(old) =>
       /\ Apart(Unwrap(old)) => Substituted(Unwrap(old), Unwrap(new), owner)
       /\ Occurrences(Unwrap(old)) = {} => new = old

TypeSubstituted(old, new) ==
  /\ SubstitutedDoc(old.doc_comments, new.doc_comments, old.name)
  /\ Len(new.properties) = Len(old.properties)
  /\ Len(new.methods) = Len(old.methods)
  /\ \A i \in DOMAIN old.properties :
       SubstitutedDoc(old.properties[i].doc_comments, new.properties[i].doc_comments,
                      old.name)
  /\ \A i \in DOMAIN old.methods :
       SubstitutedDoc(old.methods[i].doc_comments, new.methods[i].doc_comments, old.name)

Sorted == pc \in {"bake", "done"}

\* String::cmp on two names of the model, read off their first letters
NameBefore(a, b) ==
  \/ a = "A" /\ b \in {"B", "Self"}
  \/ a = "B" /\ b = "Self"

InNameOrder(list) ==
  \A i, j \in DOMAIN list : i < j => ~NameBefore(list[j].name, list[i].name)

\* C12: once the sort pass has run, the enums, structs, classes and
\* functions of the Document and the properties and methods of every struct
\* and class are in non-decreasing order of name, injected members included.
C12_ListsInNameOrder ==
  Sorted =>
    /\ InNameOrder(document.enums)
    /\ InNameOrder(document.structs)
    /\ InNameOrder(document.classes)
    /\ InNameOrder(document.functions)
    /\ \A list \in {"structs", "classes"} :
         \A i \in DOMAIN document[list] :
           /\ InNameOrder(document[list][i].properties)
           /\ InNameOrder(document[list][i].methods)

\* a struct whose injected method A stands before its own method B, which
\* was declared before the proxy was appended; the top-level lists hold two
\* names as well
C12_Witness ==
  /\ Sorted
  /\ \E i \in DOMAIN document.structs :
       LET methods == document.structs[i].methods
       IN  \E j, k \in DOMAIN methods :
             /\ j < k
             /\ methods[j].name = "A" /\ methods[j].doc_comments = Some(<<"proxy">>)
             /\ methods[k].name = "B" /\ methods[k].doc_comments = Some(<<"own">>)
  /\ Len(document.enums) = 2
  /\ document.enums[1].name /= document.enums[2].name
  /\ Len(document.classes) = 2

(***************************************************************************)
(* Idempotence of the passes                                               *)
(***************************************************************************)
SelfNamesResolved == pc \in {"sort_items_by_name", "bake", "done"}

\* the names that, standing between two dollar signs, make a placeholder
CompletesPlaceholder(name) ==
  \E i \in DOMAIN SelfPlaceholder :
    /\ SelfPlaceholder[i] = name
    /\ 1 < i
    /\ i < Len(SelfPlaceholder)

OwnerNamesOf(doc) ==
  {doc.enums[i].name : i \in DOMAIN doc.enums}
    \cup {doc.structs[i].name : i \in DOMAIN doc.structs}
    \cup {doc.classes[i].name : i \in DOMAIN doc.classes}

\* C20 as stated: a second self-name pass over a Document that has been
\* through the pass changes nothing, and a second sort pass over a sorted
\* Document changes nothing.
C20_PassesIdempotent ==
  /\ SelfNamesResolved => DocumentResolveSelfNames(document) = document
  /\ Sorted => DocumentSortItems(document) = document

\* C20, amended: the second self-name pass changes nothing when no owner's
\* name is a piece of the placeholder; the second sort pass changes nothing.
C20_IdempotentUnlessNameCompletesPlaceholder ==
  /\ (SelfNamesResolved /\ \A name \in OwnerNamesOf(document) : ~CompletesPlaceholder(name))
       => DocumentResolveSelfNames(document) = document
  /\ Sorted => DocumentSortItems(document) = document

\* after the passes: a struct whose doc comment held a placeholder and holds
\* its name now, and (in another run) lists that the sort has reordered
C20_Witness ==
  \/ /\ SelfNamesResolved
     /\ document.structs /= <<>>
     /\ document.structs[1].name = "A"
     /\ document.structs[1].doc_comments = Some(<<"$", "A", "$">>)
     /\ document.functions[1].doc_comments = Some(<<"$">> \o SelfPlaceholder \o <<"$">>)
     /\ DocumentResolveSelfNames(document) = document
  \/ /\ Sorted
     /\ Len(document.enums) = 2
     /\ document.enums[1].name = "A"
     /\ document.enums[2].name = "B"
     /\ \E i \in DOMAIN document.structs :
          /\ Len(document.structs[i].methods) = 4
          /\ document.structs[i].methods[2].doc_comments = Some(<<"proxy">>)
          /\ document.structs[i].methods[3].doc_comments = Some(<<"own">>)

(***************************************************************************)
(* Self names of functions and of their arguments                          *)
(***************************************************************************)
ArgumentsSubstituted(old, new, owner) ==
  /\ Len(new.arguments) = Len(old.arguments)
  /\ \A k \in DOMAIN old.arguments :
       SubstitutedDoc(old.arguments[k].doc_comments, new.arguments[k].doc_comments, owner)

MethodsSubstituted(old, new) ==
  /\ Len(new.methods) = Len(old.methods)
  /\ \A i \in DOMAIN old.methods :
       /\ SubstitutedDoc(old.methods[i].doc_comments, new.methods[i].doc_comments, old.name)
       /\ ArgumentsSubstituted(old.methods[i], new.methods[i], old.name)

\* C19: the self-name pass leaves the doc comments of the top-level functions
\* and of their arguments as they are, placeholders included; in the doc
\* comments of a method and of its arguments it puts the name of the
\* enclosing struct or class in the place of the placeholder.
C19_OwnerlessFunctionsKeepPlaceholder ==
  [][ResolveSelfNamesStep =>
       /\ document'.functions = document.functions
       /\ \A list \in {"structs", "classes"} :
            /\ Len(document'[list]) = Len(document[list])
            /\ \A i \in DOMAIN document[list] :
                 MethodsSubstituted(document[list][i], document'[list][i])]_vars

\* the pass has run: the function and its argument still hold the two
\* placeholders, the method of struct A and its argument hold A twice
C19_Witness ==
  /\ pc = "sort_items_by_name"
  /\ document.functions /= <<>>
  /\ document.functions[1].doc_comments = Some(SelfPlaceholder \o <<"x">> \o SelfPlaceholder)
  /\ document.functions[1].arguments[1].doc_comments =
       Some(SelfPlaceholder \o <<"x">> \o SelfPlaceholder)
  /\ document.structs[1].name = "A"
  /\ document.structs[1].methods[1].doc_comments = Some(<<"A", "x", "A">>)
  /\ document.structs[1].methods[1].arguments[1].doc_comments = Some(<<"A", "x", "A">>)
  /\ document.classes[1].methods[1].arguments[1].doc_comments = Some(<<"A", "x", "A">>)

(***************************************************************************)
(* File order                                                              *)
(***************************************************************************)
\* the orders a list can be in
Orders(list) ==
  IF list = <<>>
    THEN {<<>>}
    ELSE {[i \in DOMAIN list |-> list[p[i]]] : p \in Permutations(DOMAIN list)}

\* The Documents the loop over the files can end with when the same files
\* are parsed in another order: every list holds the same entries, file by
\* file, in the order of the files.
Reordered(doc, structs, classes, functions, properties) ==
  [doc EXCEPT !.structs = structs, !.classes = classes,
              !.proxy_functions = functions, !.proxy_properties = properties]

\* the (host, member) pairs of a Document
MembersOf(doc) ==
  UNION {UNION {
    {<<list, doc[list][i].name, "method", doc[list][i].methods[k]>> :
        k \in DOMAIN doc[list][i].methods}
      \cup {<<list, doc[list][i].name, "property", doc[list][i].properties[k]>> :
              k \in DOMAIN doc[list][i].properties} :
    i \in DOMAIN doc[list]} : list \in {"structs", "classes"}}

\* C18: inject resolution gives the hosts the same members whatever the
\* order in which the files were parsed: resolving the Document of any other
\* file order yields the (host, member) pairs this run's resolution yields.
C18_FileOrderIndependent ==
  [][ResolveInjectsStep =>
       LET resolved == MembersOf(document')
       IN  \A structs \in Orders(document.structs), classes \in Orders(document.classes),
              functions \in Orders(document.proxy_functions),
              properties \in Orders(document.proxy_properties) :
             LET other == Reordered(document, structs, classes, functions, properties)
             IN  MembersOf(DocumentResolveInjects(other)) = resolved]_vars

\* a struct tagged t1 declared before two proxies that match it: it holds
\* both items, the one of the later proxy included
C18_Witness ==
  /\ PostInject
  /\ \E i \in DOMAIN document.structs :
       /\ document.structs[i].name = "A"
       /\ \E j, k \in DOMAIN document.structs[i].methods :
            /\ j < k
            /\ document.structs[i].methods[j] = NewFunction("B", "Public", Some(<<"proxy">>))
            /\ document.structs[i].methods[k] = NewFunction("A", "Public", Some(<<"proxy">>))
  /\ Len(document.structs) = 2

(***************************************************************************)
(* Export predicates of members and of types                               *)
(***************************************************************************)
ExportEnabled(v) ==
  \/ v = "Public"
  \/ v = "Protected" /\ settings.document_protected
  \/ v = "Private" /\ settings.document_private

DocumentedAndEnabled(item) ==
  IsSome(item.doc_comments) /\ ExportEnabled(item.visibility)

\* the members of one kind the body loop has classified so far that are
\* documented and of an export-enabled visibility, in declaration order
KeptMembers(kind) ==
  LET Keeps(node) ==
        /\ node.rule = "element"
        /\ node.element.kind = kind
        /\ DocumentedAndEnabled(node.element.item)
      ItemOf(node) == node.element.item
  IN  MapSeq(ItemOf, SelectSeq(body, Keeps))

\* C14: a property or a function is exported if and only if it has doc
\* comments and its visibility is export-enabled (Public always, Protected
\* with document_protected, Private with document_private), whatever
\* show_all is: the type under construction holds exactly those members of
\* its body, and a top-level function is admitted exactly then.
C14_MemberExportedIffDocumentedAndEnabled ==
  /\ scope = "body" =>
       /\ result.properties = KeptMembers("Property")
       /\ result.methods = KeptMembers("Function")
  /\ (scope = "file" /\ element.kind = "Function") =>
       (DocumentedAndEnabled(element.item) <=> LastIs(document.functions, element.item))

\* show_all is on and document_protected off: the documented property under
\* `protected:` is dropped
C14_Witness ==
  /\ scope = "body"
  /\ settings.show_all
  /\ ~settings.document_protected
  /\ Len(body) = 2
  /\ body[1] = VisibilityNode("protected")
  /\ body[2].rule = "element"
  /\ body[2].element.kind = "Property"
  /\ IsSome(body[2].element.item.doc_comments)
  /\ body[2].element.item.visibility = "Protected"
  /\ result.properties = <<>>

\* the body loop of a struct or class has ended and parse_file has dealt
\* with what it returned
TypeClassified ==
  /\ pc = "document_path"
  /\ scope = "file"
  /\ element.kind = "StructClass"

TypeListOf(sc) == IF sc.mode = "Struct" THEN document.structs ELSE document.classes

\* C15: a struct or class is exported if and only if show_all is on, or it
\* has doc comments, or one of its properties or methods is exportable by
\* the member's own predicate: parse_file admits it exactly then.
C15_TypeExportedIffShowAllDocsOrMember ==
  TypeClassified =>
    LET sc == element.item
    IN  LastIs(TypeListOf(sc), sc) <=>
          \/ settings.show_all
          \/ IsSome(sc.doc_comments)
          \/ \E i \in DOMAIN sc.properties : DocumentedAndEnabled(sc.properties[i])
          \/ \E i \in DOMAIN sc.methods : DocumentedAndEnabled(sc.methods[i])

\* show_all off: an undocumented class is admitted for its one documented
\* method under `public:`
C15_Witness ==
  /\ TypeClassified
  /\ ~settings.show_all
  /\ element.item.mode = "Class"
  /\ element.item.doc_comments = None
  /\ element.item.properties = <<>>
  /\ Len(element.item.methods) = 1
  /\ body[1] = VisibilityNode("public")
  /\ LastIs(document.classes, element.item)

(***************************************************************************)
(* Export of a host that has nothing but injected members                  *)
(***************************************************************************)
\* the last type the parser returned has no doc comment and no exportable
\* member of its own, and its inject tags match a registered proxy
BareHostWithMatchingProxy ==
  /\ ~settings.show_all
  /\ element.kind = "StructClass"
  /\ element.item.doc_comments = None
  /\ element.item.properties = <<>>
  /\ element.item.methods = <<>>
  /\ \/ \E k \in DOMAIN document.proxy_functions :
          Intersects(element.item.injects, document.proxy_functions[k].tags)
     \/ \E k \in DOMAIN document.proxy_properties :
          Intersects(element.item.injects, document.proxy_properties[k].tags)

HoldsInjected(host) ==
  \/ \E k \in DOMAIN document.proxy_functions :
       /\ Intersects(element.item.injects, document.proxy_functions[k].tags)
       /\ \E j \in DOMAIN host.methods : host.methods[j] = document.proxy_functions[k].item
  \/ \E k \in DOMAIN document.proxy_properties :
       /\ Intersects(element.item.injects, document.proxy_properties[k].tags)
       /\ \E j \in DOMAIN host.properties :
            host.properties[j] = document.proxy_properties[k].item

\* C17: with show_all off, a struct or class without doc comment and without
\* exportable member of its own whose inject tags match a registered proxy
\* is in the resolved Document and holds the injected member.
C17_BareHostExportedAfterInjection ==
  [][(ResolveInjectsStep /\ BareHostWithMatchingProxy) =>
       LET list == IF element.item.mode = "Struct" THEN "structs" ELSE "classes"
       IN  \E i \in DOMAIN document'[list] :
             /\ document'[list][i].name = element.item.name
             /\ HoldsInjected(document'[list][i])]_vars

(***************************************************************************)
(* Snippet dedent                                                          *)
(***************************************************************************)
ParseSnippetStep == IsSome(snippet) /\ snippet' = None

\* C13: the snippet is registered with every line of its body short of the
\* same number of leading whitespace characters, the least number of leading
\* whitespace characters any of its lines has; what follows them on a line
\* is kept, and one line starts with no whitespace.
C13_DedentByMinimumIndent ==
  [][ParseSnippetStep =>
       LET node == Unwrap(snippet)
           lines == node.inner
           least == Level(lines)
       IN  /\ pc' /= "panicked"
           /\ node.id \in DOMAIN document'.snippets
           /\ LET text == document'.snippets[node.id]
              IN  /\ Len(text) = Len(lines)
                  /\ \A i \in DOMAIN lines :
                       text[i] = SubSeq(lines[i], least + 1, Len(lines[i]))
                  /\ \E i \in DOMAIN text : LeadingWhitespace(text[i]) = 0]_vars

(***************************************************************************)
(* Layout of a function's signature                                        *)
(***************************************************************************)
Has(s, piece) == \E i \in DOMAIN s : s[i] = piece

Once(s, piece) == Cardinality({i \in DOMAIN s : s[i] = piece}) = 1

Where(s, piece) == CHOOSE i \in DOMAIN s : s[i] = piece

\* the pieces of `chain` that s holds stand in s once each, in chain's order
InChainOrder(s, chain) ==
  /\ \A i \in DOMAIN chain : Has(s, chain[i]) => Once(s, chain[i])
  /\ \A i, j \in DOMAIN chain :
       (i < j /\ Has(s, chain[i]) /\ Has(s, chain[j]))
         => Where(s, chain[i]) < Where(s, chain[j])

\* the value types between the parentheses, in the order they stand
TypesWritten(s) ==
  LET IsType(piece) == piece \in {"int", "bool"}
  IN  SelectSeq(SubSeq(s, Where(s, "(") + 1, Where(s, ")") - 1), IsType)

LaidOut(f, s) ==
  /\ s[1] = VisibilitySignature(f.visibility)
  /\ s[2] = ":\n"
  /\ s[Len(s)] = ";"
  /\ IF IsSome(f.template)
       THEN s[3] = Unwrap(f.template) /\ s[4] = "\n"
       ELSE ~Has(s, "template <typename T>")
  /\ Has(s, "static ") <=> f.is_static
  /\ Has(s, "virtual ") <=> f.is_virtual
  /\ Has(s, "void") <=> IsSome(f.return_type)
  /\ Has(s, " const") <=> f.is_const_this
  /\ Has(s, " override") <=> f.is_override
  /\ Has(s, f.name) /\ Has(s, "(") /\ Has(s, ")")
  /\ InChainOrder(s, <<":\n", "template <typename T>", "static ", "virtual ", "void",
                       f.name, "(", ")", " const", " override", ";">>)
  /\ TypesWritten(s) = [i \in DOMAIN f.arguments |-> f.arguments[i].value_type]

MdBookWritten == IsSome(output) /\ "signatures" \in DOMAIN Unwrap(output)

\* C16: a function's signature starts with the visibility label, a colon and
\* a line break, has the template on a line of its own when there is one,
\* then `static `, `virtual `, the return type, the name, the parenthesised
\* arguments in declaration order, ` const`, ` override` and `;`, each only
\* when it applies, in this order.
C16_SignatureLayout ==
  MdBookWritten =>
    /\ Len(Unwrap(output).signatures) = Len(document.functions)
    /\ \A i \in DOMAIN document.functions :
         LaidOut(document.functions[i], Unwrap(output).signatures[i])

\* every optional piece is there, and two arguments
C16_Witness ==
  /\ MdBookWritten
  /\ LET f == document.functions[1]
         s == Unwrap(output).signatures[1]
     IN  /\ f.is_static /\ f.is_virtual /\ f.is_const_this /\ f.is_override
         /\ IsSome(f.template) /\ IsSome(f.return_type)
         /\ f.visibility = "Protected"
         /\ Len(f.arguments) = 2
         /\ f.arguments[1].value_type = "bool"
         /\ f.arguments[2].value_type = "int"
         /\ s[1] = "protected"
         /\ Where(s, "static ") + 1 = Where(s, "virtual ")

(***************************************************************************)
(* Order of the members right after inject resolution                      *)
(***************************************************************************)
\* the items of the proxies whose tags meet `tags`, in registration order
MatchingItems(proxies, tags) ==
  LET Meets(p) == Intersects(tags, p.tags)
      ItemOf(p) == p.item
  IN  MapSeq(ItemOf, SelectSeq(proxies, Meets))

OwnThenInjected(list) ==
  /\ Len(document'[list]) = Len(document[list])
  /\ \A i \in DOMAIN document[list] :
       LET old == document[list][i]
           new == document'[list][i]
       IN  /\ new.methods =
                old.methods \o MatchingItems(document.proxy_functions, old.injects)
           /\ new.properties =
                old.properties \o MatchingItems(document.proxy_properties, old.injects)

\* C21: right after inject resolution the methods of every host, struct or
\* class, are its own methods in source order followed by the items of the
\* matching proxy functions in registration order, one item per matching
\* proxy; likewise its properties and the proxy properties.
C21_OwnMembersThenInjected ==
  [][ResolveInjectsStep => OwnThenInjected("structs") /\ OwnThenInjected("classes")]_vars

(***************************************************************************)
(* Registration of proxies                                                 *)
(***************************************************************************)
ParseProxyStep == IsSome(proxy) /\ proxy' = None

\* the lists of the Document that hold no proxies
KeptLists == {"enums", "classes", "structs", "functions", "book", "snippets"}

\* C22: a proxy directive is registered only when it has a doc-comment block
\* and its content is a function or a property: then one proxy with its tags
\* and the item is appended to the list of its kind, under every setting;
\* without doc-comment block, or with an enum, a struct, a class or nothing
\* as content, neither proxy list changes.
C22_ProxyRegisteredIffDocumentedMember ==
  [][ParseProxyStep =>
       LET node == Unwrap(proxy)
           documented == IsSome(node.doc_comments)
           added(list) == Appended(document[list], document'[list])
           grown(list) ==
             /\ Len(added(list)) = 1
             /\ SubSeq(document'[list], 1, Len(document[list])) = document[list]
             /\ added(list)[1].tags = node.tags
             /\ added(list)[1].item.name = node.name
             /\ added(list)[1].item.doc_comments = node.doc_comments
       IN  /\ \A list \in KeptLists : document'[list] = document[list]
           /\ (documented /\ node.kind = "Function") =>
                grown("proxy_functions") /\ UNCHANGED document.proxy_properties
           /\ (documented /\ node.kind = "Property") =>
                grown("proxy_properties") /\ UNCHANGED document.proxy_functions
           /\ (~documented \/ node.kind \notin {"Function", "Property"}) =>
                /\ UNCHANGED document.proxy_functions
                /\ UNCHANGED document.proxy_properties]_vars

\* the default settings: a documented proxy property with two tags is
\* registered, the proxy functions stay empty
C22_Witness ==
  /\ ~settings.show_all /\ ~settings.document_protected /\ ~settings.document_private
  /\ proxy = None
  /\ nodes = 1
  /\ Len(document.proxy_properties) = 1
  /\ document.proxy_properties[1].tags = {"t1", "t2"}
  /\ document.proxy_functions = <<>>

(***************************************************************************)
(* The visibility of the members of a body                                 *)
(***************************************************************************)
SectionOf(token) ==
  CASE token = "private" -> "Private"
    [] token = "protected" -> "Protected"
    [] token = "public" -> "Public"

\* the recognised visibility sections among the first k - 1 nodes of the body
SectionsBefore(k) ==
  {j \in 1..(k - 1) :
     body[j].rule = "visibility" /\ body[j].token \in {"private", "protected", "public"}}

\* the visibility the k-th node of the body is under
VisibilityAt(k, mode) ==
  IF SectionsBefore(k) = {}
    THEN IF mode = "Struct" THEN "Public" ELSE "Private"
    ELSE LET last == CHOOSE j \in SectionsBefore(k) : \A i \in SectionsBefore(k) : i <= j
         IN  SectionOf(body[last].token)

\* C23: in a body, every member has the visibility of the last recognised
\* visibility section before it, or the default of the mode if there is
\* none; an unrecognised token and an inject node do not count, the current
\* visibility is the one the next node would be under, and the members kept
\* so far stay as they are whatever node comes next.
C23_MemberUnderLastSection ==
  /\ [](scope = "body" =>
          /\ \A k \in ElementNodes :
               body[k].element.item.visibility = VisibilityAt(k, result.mode)
          /\ visibility = VisibilityAt(Len(body) + 1, result.mode))
  /\ [][(scope = "body" /\ scope' = "body") =>
          /\ SubSeq(body', 1, Len(body)) = body
          /\ SubSeq(result'.properties, 1, Len(result.properties)) = result.properties
          /\ SubSeq(result'.methods, 1, Len(result.methods)) = result.methods]_vars

\* a documented method of a struct is kept as Public, the default of the
\* mode, and a `private` section has come after it
C23_Witness ==
  /\ scope = "body"
  /\ result.mode = "Struct"
  /\ Len(body) = 2
  /\ body[1].rule = "element"
  /\ body[2] = VisibilityNode("private")
  /\ Len(result.methods) = 1
  /\ result.methods[1].visibility = "Public"
  /\ visibility = "Private"

(***************************************************************************)
(* What is stored is exportable                                            *)
(***************************************************************************)
AllExportable(list) == \A i \in DOMAIN list : DocumentedAndEnabled(list[i])

MembersExportable(sc) == AllExportable(sc.properties) /\ AllExportable(sc.methods)

\* C24: in every state, while the headers are parsed and after each pass,
\* every property and method of a struct or class of the Document (and of
\* the type under construction) and every top-level function has doc
\* comments and an export-enabled visibility under the settings of the run.
C24_StoredMembersExportable ==
  /\ AllExportable(document.functions)
  /\ \A i \in DOMAIN document.structs : MembersExportable(document.structs[i])
  /\ \A i \in DOMAIN document.classes : MembersExportable(document.classes[i])
  /\ MembersExportable(result)

\* show_all is on: the struct is in the resolved Document on its strength,
\* its one property, which has no doc comment, is not
C24_Witness ==
  /\ pc = "done"
  /\ settings.show_all
  /\ Len(document.structs) = 1
  /\ document.structs[1].doc_comments = None
  /\ document.structs[1].properties = <<>>
  /\ Len(body) = 2
  /\ body[1] = VisibilityNode("public")
  /\ body[2].rule = "element"
  /\ body[2].element.kind = "Property"
  /\ body[2].element.item.doc_comments = None

(***************************************************************************)
(* Snippets in any place                                                   *)
(***************************************************************************)
\* C25: a snippet directive is registered under its id wherever it stands,
\* at file scope, in the body of a top-level function or in the body of a
\* method, whether or not the function or the type is exported.
C25_SnippetRegisteredAnywhere ==
  [][ParseSnippetStep =>
       /\ pc' = pc
       /\ Unwrap(snippet).id \in DOMAIN document'.snippets]_vars

(***************************************************************************)
(* One proxy in several hosts                                              *)
(***************************************************************************)
\* the members that two hosts hold as copies of one item
SharedCopies(list, i, j, members) ==
  {<<k, l>> \in (DOMAIN document[list][i][members]) \X (DOMAIN document[list][j][members]) :
     document[list][i][members][k] = document[list][j][members][l]}

CopiesResolvedPerHost(list, members) ==
  \A i, j \in DOMAIN document[list] :
    i # j =>
      \A c \in SharedCopies(list, i, j, members) :
        /\ SubstitutedDoc(document[list][i][members][c[1]].doc_comments,
                          document'[list][i][members][c[1]].doc_comments,
                          document[list][i].name)
        /\ SubstitutedDoc(document[list][j][members][c[2]].doc_comments,
                          document'[list][j][members][c[2]].doc_comments,
                          document[list][j].name)

\* C26: when several hosts hold a copy of one proxy's item, the self-name
\* pass puts in each copy's doc comment the name of the host that holds that
\* copy: what a copy becomes is decided by its own host alone.
C26_EachCopyGetsItsHostsName ==
  [][ResolveSelfNamesStep =>
       /\ \A list \in {"structs", "classes"} :
            /\ Len(document'[list]) = Len(document[list])
            /\ \A i \in DOMAIN document[list] :
                 /\ Len(document'[list][i].methods) = Len(document[list][i].methods)
                 /\ Len(document'[list][i].properties) = Len(document[list][i].properties)
       /\ \A list \in {"structs", "classes"}, members \in {"methods", "properties"} :
            CopiesResolvedPerHost(list, members)]_vars

\* structs A and B hold the copies of one proxy function after the pass, one
\* with "A" and one with "B" where the placeholder stood
C26_Witness ==
  /\ pc = "sort_items_by_name"
  /\ \E i, j \in DOMAIN document.structs :
       /\ document.structs[i].name = "A"
       /\ document.structs[j].name = "B"
       /\ \E k \in DOMAIN document.structs[i].methods, l \in DOMAIN document.structs[j].methods :
            /\ document.structs[i].methods[k].name = document.structs[j].methods[l].name
            /\ document.structs[i].methods[k].doc_comments = Some(<<"A", "doc">>)
            /\ document.structs[j].methods[l].doc_comments = Some(<<"B", "doc">>)

(***************************************************************************)
(* The sort pass only reorders                                             *)
(***************************************************************************)
SortItemsStep == pc = "sort_items_by_name" /\ pc' = "bake"

NamesIn(list) == {list[i].name : i \in DOMAIN list}

WithName(list, n) ==
  LET Named(e) == e.name = n
  IN  SelectSeq(list, Named)

\* new holds the entries of old, each as often as old does and unchanged,
\* and same-named entries in the order they had
OnlyReordered(old, new) ==
  /\ Len(new) = Len(old)
  /\ \A n \in NamesIn(old) \cup NamesIn(new) : WithName(new, n) = WithName(old, n)

\* a type without its members
Skeleton(sc) == [sc EXCEPT !.properties = <<>>, !.methods = <<>>]

\* the same for a list of types, whose own members the pass reorders too
TypesOnlyReordered(old, new) ==
  /\ Len(new) = Len(old)
  /\ \A n \in NamesIn(old) \cup NamesIn(new) :
       LET before == WithName(old, n)
           after == WithName(new, n)
       IN  /\ MapSeq(Skeleton, after) = MapSeq(Skeleton, before)
           /\ \A k \in DOMAIN before :
                /\ OnlyReordered(before[k].properties, after[k].properties)
                /\ OnlyReordered(before[k].methods, after[k].methods)

\* C27: the sort pass only reorders: every list holds after it the entries
\* it held before, each as often as before and with every field as it was,
\* and entries of equal name keep the order they had among themselves.
C27_SortOnlyReorders ==
  [][SortItemsStep =>
       /\ OnlyReordered(document.enums, document'.enums)
       /\ OnlyReordered(document.functions, document'.functions)
       /\ TypesOnlyReordered(document.structs, document'.structs)
       /\ TypesOnlyReordered(document.classes, document'.classes)
       /\ document'.book = document.book
       /\ document'.snippets = document.snippets
       /\ document'.proxy_functions = document.proxy_functions
       /\ document'.proxy_properties = document.proxy_properties]_vars

\* sorted methods of a struct: own and injected A, told apart by their doc
\* comment and in the order they had, before the own B that stood first
C27_Witness ==
  /\ pc = "bake"
  /\ \E i \in DOMAIN document.structs :
       LET methods == document.structs[i].methods
       IN  /\ Len(methods) = 3
           /\ methods[1].name = "A" /\ methods[1].doc_comments = Some(<<"own">>)
           /\ methods[2].name = "A" /\ methods[2].doc_comments = Some(<<"proxy">>)
           /\ methods[3].name = "B" /\ methods[3].doc_comments = Some(<<"own">>)

(***************************************************************************)
(* What inject resolution leaves alone                                     *)
(***************************************************************************)
\* a type after the pass is the type before it, but for members behind the
\* ones it had and a tag set that may have been emptied
OnlyAppendedTo(old, new) ==
  /\ [new EXCEPT !.methods = old.methods, !.properties = old.properties,
                 !.injects = old.injects] = old
  /\ IsPrefix(old.methods, new.methods)
  /\ IsPrefix(old.properties, new.properties)
  /\ new.injects \in {old.injects, {}}

\* C28: inject resolution only appends members to types and empties the
\* proxy lists and tag sets: the enums, the top-level functions, the book,
\* the snippets, the number and order of structs and classes, and every
\* member and doc comment a type had before the pass are as they were.
C28_InjectResolutionFrame ==
  [][ResolveInjectsStep =>
       /\ document'.enums = document.enums
       /\ document'.functions = document.functions
       /\ document'.book = document.book
       /\ document'.snippets = document.snippets
       /\ document'.proxy_functions = <<>>
       /\ document'.proxy_properties = <<>>
       /\ \A list \in {"structs", "classes"} :
            /\ Len(document'[list]) = Len(document[list])
            /\ \A i \in DOMAIN document[list] :
                 OnlyAppendedTo(document[list][i], document'[list][i])]_vars

\* after the pass: a struct holds its own method and behind it an injected
\* one, next to enums and top-level functions
C28_Witness ==
  /\ pc = "resolve_self_names_in_docs"
  /\ document.enums # <<>>
  /\ document.functions # <<>>
  /\ document.classes # <<>>
  /\ \E i \in DOMAIN document.structs :
       LET methods == document.structs[i].methods
       IN  /\ Len(methods) >= 2
           /\ methods[1].doc_comments = Some(<<"own">>)
           /\ methods[Len(methods)].doc_comments = Some(<<"proxy">>)

(***************************************************************************)
(* Injected members are Public                                             *)
(***************************************************************************)
AllPublic(list) == \A i \in DOMAIN list : list[i].visibility = "Public"

\* C29: every member that reaches a host through injection has visibility
\* Public, whatever the host's mode and whatever visibility section its
\* inject directive stands under: the items of the registered proxies are
\* Public, and what inject resolution appends to a type is Public.
C29_InjectedMembersPublic ==
  /\ [](/\ AllPublic(MapSeq(ProxyItem, document.proxy_functions))
        /\ AllPublic(MapSeq(ProxyItem, document.proxy_properties)))
  /\ [][ResolveInjectsStep =>
          \A list \in {"structs", "classes"} :
            \A i \in DOMAIN document[list] :
              /\ i \in DOMAIN document'[list]
              /\ AllPublic(Appended(document[list][i].methods,
                                    document'[list][i].methods))
              /\ AllPublic(Appended(document[list][i].properties,
                                    document'[list][i].properties))]_vars

\* after inject resolution: the struct whose inject directive stood under a
\* `private` section holds the proxies' items, and they are Public
C29_Witness ==
  /\ pc = "resolve_self_names_in_docs"
  /\ Len(body) = 2
  /\ body[1] = VisibilityNode("private")
  /\ body[2].rule = "inject"
  /\ Len(document.structs) = 1
  /\ document.structs[1].methods # <<>>
  /\ document.structs[1].properties # <<>>
  /\ AllPublic(document.structs[1].methods)
  /\ AllPublic(document.structs[1].properties)

(***************************************************************************)
(* Export is monotone in the settings                                      *)
(***************************************************************************)
\* the settings with every flag of s on, and maybe more
Above(s) ==
  {t \in SettingsSet :
     /\ s.show_all => t.show_all
     /\ s.document_protected => t.document_protected
     /\ s.document_private => t.document_private}

MemberCanExport(kind, item, s) ==
  IF kind = "Property" THEN PropertyCanExport(item, s) ELSE FunctionCanExport(item, s)

\* the members of one kind the body loop keeps of the body read so far when
\* it runs under the settings s
MembersUnder(kind, s) ==
  LET Keeps(node) ==
        /\ node.rule = "element"
        /\ node.element.kind = kind
        /\ MemberCanExport(kind, node.element.item, s)
      ItemOf(node) == node.element.item
  IN  MapSeq(ItemOf, SelectSeq(body, Keeps))

\* the type the body loop returns for the same body under the settings s
TypeUnder(sc, s) ==
  [sc EXCEPT !.properties = MembersUnder("Property", s),
             !.methods = MembersUnder("Function", s)]

\* what is kept under the settings of the run is what is kept under t, less
\* the members the settings of the run drop: nothing kept now is missing
\* under t
StillPresent(kind, t) ==
  LET Keeps(item) == MemberCanExport(kind, item, settings)
  IN  MembersUnder(kind, settings) = SelectSeq(MembersUnder(kind, t), Keeps)

\* C30: export is monotone in the settings: for the same input, under any
\* settings with the flags of the run on and more, every member the body
\* loop keeps is kept, and every type, function and enum parse_file admits is
\* admitted.
C30_ExportMonotoneInSettings ==
  /\ (scope = "body" \/ TypeClassified) =>
       LET sc == IF scope = "body" THEN result ELSE element.item
       IN  /\ sc = TypeUnder(sc, settings)
           /\ \A t \in Above(settings) :
                StillPresent("Property", t) /\ StillPresent("Function", t)
  /\ TypeClassified =>
       LET sc == element.item
       IN  /\ LastIs(TypeListOf(sc), sc) <=> StructClassCanExport(sc, settings)
           /\ StructClassCanExport(sc, settings) =>
                \A t \in Above(settings) : StructClassCanExport(TypeUnder(sc, t), t)
  /\ (scope = "file" /\ element.kind = "Function") =>
       /\ LastIs(document.functions, element.item) <=> FunctionCanExport(element.item, settings)
       /\ FunctionCanExport(element.item, settings) =>
            \A t \in Above(settings) : FunctionCanExport(element.item, t)
  /\ (scope = "file" /\ element.kind = "Enum") =>
       /\ LastIs(document.enums, element.item) <=> EnumCanExport(element.item, settings)
       /\ EnumCanExport(element.item, settings) =>
            \A t \in Above(settings) : EnumCanExport(element.item, t)

\* under the default settings a type is admitted for its doc comments and
\* without the member of its body; with every flag on it holds the member
C30_Witness ==
  LET all == [show_all |-> TRUE, document_protected |-> TRUE, document_private |-> TRUE]
  IN  /\ TypeClassified
      /\ settings = DefaultSettings
      /\ LastIs(TypeListOf(element.item), element.item)
      /\ Len(element.item.methods) + Len(element.item.properties) = 0
      /\ Len(MembersUnder("Function", all)) + Len(MembersUnder("Property", all)) = 1
      /\ StructClassCanExport(TypeUnder(element.item, all), all)

====
